---- MODULE Spec2Model ----
(***************************************************************************)
(* Virtual try-on backend (backend/server.py): the submit handler          *)
(* generate_tryon, the external job wrapper generate_virtual_tryon, the    *)
(* read-back handlers and the two document collections.                    *)
(*                                                                         *)
(* Every handler is a coroutine: the code between two awaits runs          *)
(* atomically, and other handlers interleave at the awaits (the store      *)
(* calls and the external job).  One action models one such segment.       *)
(***************************************************************************)
EXTENDS Integers, Sequences, FiniteSets, TLC

(* ---------------------------------------------------------------- bounds *)
\* concurrent / successive submit calls
MaxCalls == 2
\* largest value of the wall clock (datetime.utcnow)
MaxClock == 1
\* status-check documents that are created
MaxStatusChecks == 1
\* the store as the server finds it at start-up: collections of up to MaxSmall
\* records, and of up to MaxOver records more than the listing returns, whose
\* creation times repeat with a period of up to MaxPeriod
MaxSmall == 3
MaxOver == 1
MaxPeriod == 3

Calls == 1..MaxCalls
\* uuid4 values: those the try-on records draw, those the status checks draw,
\* and one that is never drawn
Uuids == 1..MaxCalls
StatusUuids == (MaxCalls + 1)..(MaxCalls + MaxStatusChecks)
UnknownId == 0
LookupIds == Uuids \cup {UnknownId}

(* ------------------------------------------------------------ input data *)
\* Optional[T]: None is the empty sequence, a value v is <<v>>
None == <<>>
Some(v) == <<v>>
Optional(S) == {None} \cup {Some(v) : v \in S}

\* characters of a name: a blank and a letter
SP == " "
NameStrings == {<<>>, <<SP>>, <<SP, "a">>}

\* an encoded image payload is "" (empty), "garbage" (not decodable) or "png"
\* (a decodable picture)

DefaultStyle == "casual"

\* artifact references the external provider hands out
Urls == {"https://fal/1.png", "https://fal/2.png"}

\* a JSON body as posted: every key may be missing
Body(name, user_image, clothing_image, measurements, style) ==
    [ name |-> name, user_image |-> user_image, clothing_image |-> clothing_image,
      measurements |-> measurements, style |-> style ]

M1 == [height |-> "170", weight |-> "65", chest |-> "90", waist |-> "75", hips |-> "95"]
M2 == [height |-> "180", weight |-> "80", chest |-> "100", waist |-> "85", hips |-> "100"]

\* complete bodies of two people; a picture is decodable or not
CompleteBodies ==
    { Body(Some(<<SP, "a">>), Some(u), Some("png"), Some(M1), None) : u \in {"garbage", "png"} }
    \cup { Body(Some(<<"b">>), Some("png"), Some(c), Some(M2), Some("formal")) :
             c \in {"garbage", "png"} }

\* bodies with any of the three checked fields empty or blank, and bodies
\* with a required key missing
DefectiveBodies ==
    { Body(Some(n), Some(u), Some(c), Some(M1), None) :
        n \in NameStrings, u \in {"", "png"}, c \in {"", "png"} }
    \cup { Body(None, Some("png"), Some("png"), Some(M1), None),
           Body(Some(<<"b">>), None, Some("png"), Some(M1), None),
           Body(Some(<<"b">>), Some("png"), None, Some(M1), None),
           Body(Some(<<"b">>), Some("png"), Some("png"), None, None),
           Body(Some(<<>>), None, Some(""), Some(M1), None),
           Body(Some(<<"b">>), None, None, Some(M1), None) }

RequestBodies == CompleteBodies \cup DefectiveBodies

(* ----------------------------------------------------------- str helpers *)
RECURSIVE LStrip(_)
LStrip(s) == IF s # <<>> /\ Head(s) = SP THEN LStrip(Tail(s)) ELSE s

RECURSIVE RStrip(_)
RStrip(s) == IF s # <<>> /\ s[Len(s)] = SP THEN RStrip(SubSeq(s, 1, Len(s) - 1)) ELSE s

\* str.strip()
Strip(s) == RStrip(LStrip(s))

(* ----------------------------------------------------------------- models *)
\* TryOnRequest(**body): required keys, and the default of style
TryOnRequestValid(body) ==
    /\ body.name # None
    /\ body.user_image # None
    /\ body.clothing_image # None
    /\ body.measurements # None

TryOnRequest(body) ==
    [ name |-> body.name[1],
      user_image |-> body.user_image[1],
      clothing_image |-> body.clothing_image[1],
      measurements |-> body.measurements[1],
      style |-> IF body.style = None THEN DefaultStyle ELSE body.style[1] ]

\* a record built from the trimmed name
TryOnResult_stripped_name(id, t, name, measurements, style) ==
    [ id |-> id,
      name |-> Strip(name),
      user_image_url |-> None,
      clothing_image_url |-> None,
      tryon_image |-> None,
      measurements |-> measurements,
      style |-> style,
      feedback |-> None,
      created_at |-> t,
      status |-> "processing" ]

\* TryOnResult(name=..., measurements=..., style=..., status="processing")
TryOnResult(id, t, name, measurements, style) ==
    [ id |-> id,
      name |-> name,
      user_image_url |-> None,
      clothing_image_url |-> None,
      tryon_image |-> None,
      measurements |-> measurements,
      style |-> style,
      feedback |-> None,
      created_at |-> t,
      status |-> "processing" ]

\* StatusCheck(client_name=...)
StatusCheck(id, t, client_name) ==
    [ id |-> id, client_name |-> client_name, timestamp |-> t ]

ClientNames == {"c1"}


(* ------------------------------------------------------- image utilities *)
\* base64_to_pil: the decoded picture, or None when decoding fails
base64_to_pil(base64_str) ==
    IF base64_str = "png" THEN Some("image") ELSE None

(* ---------------------------------------------------------- external job *)
\* what fal_client hands back: an exception, or a result object
FalImages ==
    { <<>>,
      << [has_url |-> FALSE, url |-> ""] >> }
    \cup { << [has_url |-> TRUE, url |-> u] >> : u \in Urls }
    \cup { << [has_url |-> TRUE, url |-> u], [has_url |-> TRUE, url |-> v] >> :
             u \in {"https://fal/1.png"}, v \in {"https://fal/2.png"} }

FalResults ==
    { [truthy |-> FALSE, has_images |-> FALSE, images |-> <<>>],
      [truthy |-> TRUE, has_images |-> FALSE, images |-> <<>>] }
    \cup { [truthy |-> TRUE, has_images |-> TRUE, images |-> i] : i \in FalImages }

FalOutcomes ==
    { [raised |-> TRUE, result |-> [truthy |-> FALSE, has_images |-> FALSE, images |-> <<>>]] }
    \cup { [raised |-> FALSE, result |-> r] : r \in FalResults }

GenerationFailure(error) ==
    [ success |-> FALSE, tryon_image |-> "", feedback |-> <<>>, error |-> error ]

GenerationSuccess(url, style) ==
    [ success |-> TRUE,
      tryon_image |-> url,
      feedback |-> <<"Virtual try-on generated successfully for ", style, " style!">>,
      error |-> "" ]

\* whether the provider is reached at all: both pictures decoded
FalInvoked(req) ==
    /\ base64_to_pil(req.user_image) # None
    /\ base64_to_pil(req.clothing_image) # None

\* generate_virtual_tryon that takes the last entry of the result set
generate_virtual_tryon_last_image(req, outcome) ==
    IF ~FalInvoked(req)
    THEN GenerationFailure("Failed to process uploaded images")
    ELSE IF outcome.raised
    THEN GenerationFailure("fal transport error")
    ELSE IF outcome.result.truthy /\ outcome.result.has_images
            /\ Len(outcome.result.images) > 0
    THEN IF outcome.result.images[Len(outcome.result.images)].has_url
         THEN GenerationSuccess(outcome.result.images[Len(outcome.result.images)].url,
                                req.style)
         ELSE GenerationFailure("'url'")
    ELSE GenerationFailure("No images generated by FAL.AI")

\* generate_virtual_tryon: never raises, returns a success or an error dict
generate_virtual_tryon(req, outcome) ==
    IF ~FalInvoked(req)
    THEN GenerationFailure("Failed to process uploaded images")
    ELSE IF outcome.raised
    THEN GenerationFailure("fal transport error")
    ELSE IF outcome.result.truthy /\ outcome.result.has_images
            /\ Len(outcome.result.images) > 0
    THEN IF outcome.result.images[1].has_url
         THEN GenerationSuccess(outcome.result.images[1].url, req.style)
         ELSE GenerationFailure("'url'")
    ELSE GenerationFailure("No images generated by FAL.AI")

(* ------------------------------------------------------- document store *)
\* positions of the documents of a collection with this id
Matching(coll, id) == { i \in 1..Len(coll) : coll[i].id = id }

Min(S) == CHOOSE x \in S : \A y \in S : x <= y

\* find_one({"id": id}): the first match, or None
find_one(coll, id) ==
    IF Matching(coll, id) = {} THEN None ELSE Some(coll[Min(Matching(coll, id))])

\* insert_one(doc)
insert_one(coll, doc) == Append(coll, doc)

\* $set: the named fields take the new values, the others stay
SetFields(doc, fields) ==
    [ k \in DOMAIN doc \cup DOMAIN fields |->
        IF k \in DOMAIN fields THEN fields[k] ELSE doc[k] ]

\* update_one with the filter lost: the first document of the collection
update_one_unfiltered(coll, id, fields) ==
    IF coll = <<>> THEN coll ELSE [ coll EXCEPT ![1] = SetFields(@, fields) ]

\* update_one({"id": id}, {"$set": fields}): the first match only
update_one(coll, id, fields) ==
    IF Matching(coll, id) = {} THEN coll
    ELSE [ coll EXCEPT ![Min(Matching(coll, id))] = SetFields(@, fields) ]

\* a sort in ascending order
SortRank_ascending(coll, i) ==
    Cardinality({ j \in 1..Len(coll) :
                    \/ coll[j].created_at < coll[i].created_at
                    \/ (coll[j].created_at = coll[i].created_at /\ j < i) }) + 1

\* sort("created_at", -1): the place of document i in the sorted sequence, after
\* every newer document and after the documents of the same time the
\* collection holds before it
SortRank(coll, i) ==
    Cardinality({ j \in 1..Len(coll) :
                    \/ coll[j].created_at > coll[i].created_at
                    \/ (coll[j].created_at = coll[i].created_at /\ j < i) }) + 1

SortCreatedDesc(coll) ==
    LET rank == [ i \in 1..Len(coll) |-> SortRank(coll, i) ]
    IN [ k \in 1..Len(coll) |-> coll[CHOOSE i \in 1..Len(coll) : rank[i] = k] ]

\* to_list(n)
to_list(coll, n) == IF Len(coll) <= n THEN coll ELSE SubSeq(coll, 1, n)

TryonListLimit == 100
StatusListLimit == 1000

(* ------------------------------------------------------------- responses *)
NoBody == [ success |-> FALSE ]

\* raise HTTPException(status_code=..., detail=...)
HTTPException(status_code, detail) ==
    [ status_code |-> status_code, detail |-> detail, body |-> NoBody ]

\* a returned value: 200 with the value as the body
Returned(body) == [ status_code |-> 200, detail |-> <<>>, body |-> body ]

\* a returned list: the body is a JSON array
JsonArray(items) == [ items |-> items ]

\* the required keys a posted body lacks, in the order TryOnRequest declares them
MissingKeys(body) ==
    SelectSeq(<<"name", "user_image", "clothing_image", "measurements">>,
              LAMBDA k : body[k] = <<>>)

\* the framework's answer to a body TryOnRequest does not accept: one "field
\* required" entry for every missing key
UnprocessableEntity(body) == HTTPException(422, MissingKeys(body))

NoResponse == [ status_code |-> 0, detail |-> <<>>, body |-> NoBody ]

(* ----------------------------------------------------------------- state *)
VARIABLES
    tryon_results,      \* db.tryon_results, in insertion order
    status_checks,      \* db.status_checks, in insertion order
    now,                \* the last value datetime.utcnow() gave
    pc,                 \* per submit call: where generate_tryon stands
    request,            \* per submit call: the parsed TryOnRequest
    tryon_result,       \* per submit call: the local TryOnResult object
    fal_outcome,        \* per submit call: what the provider handed back, None
                        \* as long as it was not called
    generation_result,  \* per submit call: what generate_virtual_tryon returned
    response,           \* per submit call: what the call answered
    effects,            \* per submit call: the awaited calls it has completed, in
                        \* order (store writes and the external job)
    reply               \* the answer given in the latest step by a handler that
                        \* runs in one step (a read-back, a status check, a
                        \* refused submit); NoReply after a step of a submit call

vars == << tryon_results, status_checks, now, pc, request, tryon_result,
           fal_outcome, generation_result, response, effects, reply >>

NoRequest ==
    [ name |-> <<>>, user_image |-> "", clothing_image |-> "",
      measurements |-> M1, style |-> DefaultStyle ]

NoTryOnResult == TryOnResult(UnknownId, 0, <<>>, NoRequest.measurements, DefaultStyle)

NoGeneration == GenerationFailure("")

\* a posted body with every key missing: what a handler without a body takes
NoPosted == Body(None, None, None, None, None)

NoReply == [ op |-> "none", arg |-> UnknownId, posted |-> NoPosted, response |-> NoResponse ]

Init ==
    /\ tryon_results = <<>>
    /\ status_checks = <<>>
    /\ now = 0
    /\ pc = [ p \in Calls |-> "idle" ]
    /\ request = [ p \in Calls |-> NoRequest ]
    /\ tryon_result = [ p \in Calls |-> NoTryOnResult ]
    /\ fal_outcome = [ p \in Calls |-> None ]
    /\ generation_result = [ p \in Calls |-> NoGeneration ]
    /\ response = [ p \in Calls |-> NoResponse ]
    /\ effects = [ p \in Calls |-> <<>> ]
    /\ reply = NoReply

\* uuid.uuid4(): a value no earlier call drew
IssuedUuids ==
    { tryon_result[p].id : p \in { q \in Calls : pc[q] # "idle" } }
    \cup { status_checks[i].id : i \in 1..Len(status_checks) }

\* an id source that hands out the same value again
uuid4_repeated(pool) == Min(pool)

uuid4(pool) == Min(pool \ IssuedUuids)

\* datetime.utcnow(): the last reading or a later one; the first reading is 1
utcnow == { t \in {now, now + 1} : 1 <= t /\ t <= MaxClock }

\* an awaited call of generate_tryon that has completed: its name, the id of
\* the record the call works on, and the status it was made with (the status
\* of the document for insert_one, of the $set for update_one, of the local
\* object for the job)
Effect(op, id, status) == [ op |-> op, id |-> id, status |-> status ]

\* the call slot the next accepted request runs in
FreeCalls == { p \in Calls : pc[p] = "idle" }

(* ------------------------------------------------ POST /api/tryon/generate *)
\* the checks of the required fields, in the order of the code
ValidationError(req) ==
    IF req.user_image = "" THEN HTTPException(400, <<"User image is required">>)
    ELSE IF req.clothing_image = "" THEN HTTPException(400, <<"Clothing image is required">>)
    ELSE IF Strip(req.name) = <<>> THEN HTTPException(400, <<"Name is required">>)
    ELSE NoResponse

\* A request arrives.  A body the request model rejects, or one that fails the
\* checks, is answered at once; otherwise the record is built and the handler
\* suspends in insert_one.
generate_tryon_begin(body) ==
    IF ~TryOnRequestValid(body)
    THEN /\ reply' = [ op |-> "submit", arg |-> UnknownId, posted |-> body,
                       response |-> UnprocessableEntity(body) ]
         /\ UNCHANGED << tryon_results, status_checks, now, pc, request, tryon_result,
                         fal_outcome, generation_result, response, effects >>
    ELSE IF ValidationError(TryOnRequest(body)) # NoResponse
    THEN /\ reply' = [ op |-> "submit", arg |-> UnknownId, posted |-> body,
                       response |-> ValidationError(TryOnRequest(body)) ]
         /\ UNCHANGED << tryon_results, status_checks, now, pc, request, tryon_result,
                         fal_outcome, generation_result, response, effects >>
    ELSE /\ FreeCalls # {}
         /\ \E t \in utcnow :
              LET p == Min(FreeCalls)
                  req == TryOnRequest(body)
              IN /\ now' = t
                 /\ request' = [ request EXCEPT ![p] = req ]
                 /\ tryon_result' = [ tryon_result EXCEPT ![p] =
                        TryOnResult(uuid4(Uuids), t, req.name, req.measurements, req.style) ]
                 /\ pc' = [ pc EXCEPT ![p] = "insert" ]
         /\ reply' = NoReply
         /\ UNCHANGED << tryon_results, status_checks, fal_outcome, generation_result,
                         response, effects >>

\* await db.tryon_results.insert_one(tryon_result.dict())
generate_tryon_insert(p) ==
    /\ pc[p] = "insert"
    /\ tryon_results' = insert_one(tryon_results, tryon_result[p])
    /\ effects' = [ effects EXCEPT ![p] =
                       Append(@, Effect("insert_one", tryon_result[p].id,
                                        tryon_result[p].status)) ]
    /\ pc' = [ pc EXCEPT ![p] = "job" ]
    /\ reply' = NoReply
    /\ UNCHANGED << status_checks, now, request, tryon_result, fal_outcome, generation_result, response >>

\* the fields the handler changes on its local object once the job has settled
Settled(obj, gen) ==
    IF gen.success
    THEN [ obj EXCEPT !.tryon_image = Some(gen.tryon_image),
                      !.feedback = Some(gen.feedback),
                      !.status = "completed" ]
    ELSE [ obj EXCEPT !.status = "failed" ]

\* a handler that calls the job again when the first attempt has failed
generate_tryon_job_retried(p) ==
    /\ pc[p] = "job"
    /\ \E first, outcome \in FalOutcomes :
         LET gen == generate_virtual_tryon(request[p], outcome)
             retried == ~generate_virtual_tryon(request[p], first).success
         IN /\ fal_outcome' = [ fal_outcome EXCEPT ![p] =
                                    IF FalInvoked(request[p]) THEN Some(outcome) ELSE None ]
            /\ generation_result' = [ generation_result EXCEPT ![p] = gen ]
            /\ tryon_result' = [ tryon_result EXCEPT ![p] = Settled(@, gen) ]
            /\ effects' = [ effects EXCEPT ![p] =
                   @ \o (IF retried
                         THEN << Effect("generate_virtual_tryon", tryon_result[p].id,
                                        tryon_result[p].status) >>
                         ELSE <<>>)
                     \o << Effect("generate_virtual_tryon", tryon_result[p].id,
                                  tryon_result[p].status) >> ]
    /\ pc' = [ pc EXCEPT ![p] = "update" ]
    /\ reply' = NoReply
    /\ UNCHANGED << tryon_results, status_checks, now, request, response >>

\* await generate_virtual_tryon(...), up to the call of update_one
generate_tryon_job(p) ==
    /\ pc[p] = "job"
    /\ \E outcome \in FalOutcomes :
         LET gen == generate_virtual_tryon(request[p], outcome)
         IN /\ fal_outcome' = [ fal_outcome EXCEPT ![p] =
                                    IF FalInvoked(request[p]) THEN Some(outcome) ELSE None ]
            /\ generation_result' = [ generation_result EXCEPT ![p] = gen ]
            /\ tryon_result' = [ tryon_result EXCEPT ![p] = Settled(@, gen) ]
    /\ effects' = [ effects EXCEPT ![p] =
                       Append(@, Effect("generate_virtual_tryon", tryon_result[p].id,
                                        tryon_result[p].status)) ]
    /\ pc' = [ pc EXCEPT ![p] = "update" ]
    /\ reply' = NoReply
    /\ UNCHANGED << tryon_results, status_checks, now, request, response >>

\* the update of a finished job that writes the status alone
CompletedUpdate_status_only(obj) == [ status |-> "completed" ]

\* the $set document of the update
\* the update of a failed job that also stores a message
FailedUpdate_with_feedback(obj) ==
    [ status |-> "failed", feedback |-> Some(<<"Generation failed">>) ]

\* the update of a finished job that writes a record built anew
CompletedUpdate_rebuilt(obj) == [ obj EXCEPT !.created_at = @ + 1 ]

CompletedUpdate(obj) == obj
FailedUpdate(obj) == [ status |-> "failed" ]
UpdateFields(obj, gen) == IF gen.success THEN CompletedUpdate(obj) ELSE FailedUpdate(obj)

\* an answer that reports every settled job as a success
SubmitResponse_always_ok(obj, gen) ==
    Returned([ success |-> TRUE,
               id |-> obj.id,
               tryon_image |-> obj.tryon_image,
               feedback |-> obj.feedback,
               status |-> obj.status ])

\* what the call answers once the update is done
SubmitResponse(obj, gen) ==
    IF gen.success
    THEN Returned([ success |-> TRUE,
                    id |-> obj.id,
                    tryon_image |-> obj.tryon_image,
                    feedback |-> obj.feedback,
                    status |-> obj.status ])
    ELSE HTTPException(500, <<"Failed to generate try-on: ", gen.error>>)

\* a handler that writes the fields of a finished job and its status in two
\* updates
generate_tryon_update_twice(p) ==
    /\ pc[p] = "update"
    /\ tryon_results' = update_one(tryon_results, tryon_result[p].id,
                                   UpdateFields(tryon_result[p], generation_result[p]))
    /\ response' = [ response EXCEPT ![p] =
                        SubmitResponse(tryon_result[p], generation_result[p]) ]
    /\ effects' = [ effects EXCEPT ![p] =
           @ \o << Effect("update_one", tryon_result[p].id, "processing") >>
             \o (IF generation_result[p].success
                 THEN << Effect("update_one", tryon_result[p].id, "completed") >>
                 ELSE <<>>) ]
    /\ pc' = [ pc EXCEPT ![p] = "done" ]
    /\ reply' = NoReply
    /\ UNCHANGED << status_checks, now, request, tryon_result, fal_outcome, generation_result >>

\* await db.tryon_results.update_one({"id": ...}, {"$set": ...}), then the answer
generate_tryon_update(p) ==
    /\ pc[p] = "update"
    /\ tryon_results' = update_one(tryon_results, tryon_result[p].id,
                                   UpdateFields(tryon_result[p], generation_result[p]))
    /\ response' = [ response EXCEPT ![p] =
                        SubmitResponse(tryon_result[p], generation_result[p]) ]
    /\ effects' = [ effects EXCEPT ![p] =
                       Append(@, Effect("update_one", tryon_result[p].id,
                                        UpdateFields(tryon_result[p],
                                                     generation_result[p]).status)) ]
    /\ pc' = [ pc EXCEPT ![p] = "done" ]
    /\ reply' = NoReply
    /\ UNCHANGED << status_checks, now, request, tryon_result, fal_outcome, generation_result >>

\* a store call of generate_tryon raises: the generic handler answers 500
InternalServerError == HTTPException(500, <<"Internal server error: ", "store error">>)

generate_tryon_store_raises(p) ==
    /\ pc[p] \in {"insert", "update"}
    /\ response' = [ response EXCEPT ![p] = InternalServerError ]
    /\ pc' = [ pc EXCEPT ![p] = "done" ]
    /\ reply' = NoReply
    /\ UNCHANGED << tryon_results, status_checks, now, request, tryon_result,
                    fal_outcome, generation_result, effects >>

(* ------------------------------------------------ GET /api/tryon/{tryon_id} *)
\* the handler that answers an unknown id with an empty record
get_tryon_result_response_empty_record(coll, tryon_id) ==
    IF find_one(coll, tryon_id) = None
    THEN Returned(NoTryOnResult)
    ELSE Returned(find_one(coll, tryon_id)[1])

get_tryon_result_response(coll, tryon_id) ==
    IF find_one(coll, tryon_id) = None
    THEN HTTPException(404, <<"Try-on result not found">>)
    ELSE Returned(find_one(coll, tryon_id)[1])

get_tryon_result(tryon_id) ==
    /\ reply' = [ op |-> "get", arg |-> tryon_id, posted |-> NoPosted,
                  response |-> get_tryon_result_response(tryon_results, tryon_id) ]
    /\ UNCHANGED << tryon_results, status_checks, now, pc, request, tryon_result,
                    fal_outcome, generation_result, response, effects >>

(* ----------------------------------------- GET /api/tryon/{tryon_id}/base64 *)
\* not x, for an Optional[str]: None and the empty string are falsy
Falsy(opt) == opt = None \/ opt[1] = ""

\* the handler without the check that an image is there
get_tryon_image_base64_response_unchecked(coll, tryon_id) ==
    IF find_one(coll, tryon_id) = None
    THEN HTTPException(404, <<"Try-on result not found">>)
    ELSE Returned([ success |-> TRUE,
                    image_base64 |-> find_one(coll, tryon_id)[1].tryon_image,
                    id |-> tryon_id ])

\* the handler that hands out the wrong field
get_tryon_image_base64_response_wrong_field(coll, tryon_id) ==
    IF find_one(coll, tryon_id) = None
    THEN HTTPException(404, <<"Try-on result not found">>)
    ELSE IF Falsy(find_one(coll, tryon_id)[1].tryon_image)
    THEN HTTPException(404, <<"Try-on image not available">>)
    ELSE Returned([ success |-> TRUE,
                    image_base64 |-> find_one(coll, tryon_id)[1].feedback,
                    id |-> tryon_id ])

get_tryon_image_base64_response(coll, tryon_id) ==
    IF find_one(coll, tryon_id) = None
    THEN HTTPException(404, <<"Try-on result not found">>)
    ELSE IF Falsy(find_one(coll, tryon_id)[1].tryon_image)
    THEN HTTPException(404, <<"Try-on image not available">>)
    ELSE Returned([ success |-> TRUE,
                    image_base64 |-> find_one(coll, tryon_id)[1].tryon_image,
                    id |-> tryon_id ])

\* a handler that hands an artifact out once and clears it
get_tryon_image_base64_consuming(tryon_id) ==
    /\ reply' = [ op |-> "base64", arg |-> tryon_id, posted |-> NoPosted,
                  response |-> get_tryon_image_base64_response(tryon_results, tryon_id) ]
    /\ tryon_results' = update_one(tryon_results, tryon_id, [ tryon_image |-> None ])
    /\ UNCHANGED << status_checks, now, pc, request, tryon_result,
                    fal_outcome, generation_result, response, effects >>

get_tryon_image_base64(tryon_id) ==
    /\ reply' = [ op |-> "base64", arg |-> tryon_id, posted |-> NoPosted,
                  response |-> get_tryon_image_base64_response(tryon_results, tryon_id) ]
    /\ UNCHANGED << tryon_results, status_checks, now, pc, request, tryon_result,
                    fal_outcome, generation_result, response, effects >>

(* ------------------------------------------------------- GET /api/tryons *)
get_all_tryons_response(coll) ==
    Returned(JsonArray(to_list(SortCreatedDesc(coll), TryonListLimit)))

get_all_tryons ==
    /\ reply' = [ op |-> "list", arg |-> UnknownId, posted |-> NoPosted,
                  response |-> get_all_tryons_response(tryon_results) ]
    /\ UNCHANGED << tryon_results, status_checks, now, pc, request, tryon_result,
                    fal_outcome, generation_result, response, effects >>

(* ------------------------------------------------------------ /api/status *)
\* a handler that keeps the latest status check alone
create_status_check_replacing(client_name) ==
    /\ StatusUuids \ IssuedUuids # {}
    /\ \E t \in utcnow :
         /\ now' = t
         /\ status_checks' = << StatusCheck(uuid4(StatusUuids), t, client_name) >>
         /\ reply' = [ op |-> "create_status", arg |-> UnknownId, posted |-> NoPosted,
                       response |-> Returned(StatusCheck(uuid4(StatusUuids), t, client_name)) ]
    /\ UNCHANGED << tryon_results, pc, request, tryon_result, fal_outcome, generation_result,
                    response, effects >>

\* POST /api/status, as long as this run has status-check ids left to draw
create_status_check(client_name) ==
    /\ StatusUuids \ IssuedUuids # {}
    /\ \E t \in utcnow :
         /\ now' = t
         /\ status_checks' =
               insert_one(status_checks, StatusCheck(uuid4(StatusUuids), t, client_name))
         /\ reply' = [ op |-> "create_status", arg |-> UnknownId, posted |-> NoPosted,
                       response |-> Returned(StatusCheck(uuid4(StatusUuids), t, client_name)) ]
    /\ UNCHANGED << tryon_results, pc, request, tryon_result, fal_outcome, generation_result,
                    response, effects >>

get_status_checks ==
    /\ reply' = [ op |-> "list_status", arg |-> UnknownId, posted |-> NoPosted,
                  response |-> Returned(JsonArray(to_list(status_checks, StatusListLimit))) ]
    /\ UNCHANGED << tryon_results, status_checks, now, pc, request, tryon_result,
                    fal_outcome, generation_result, response, effects >>

(* --------------------------------------------------------- specifications *)
\* the store serves every call
Next ==
    \/ \E body \in RequestBodies : generate_tryon_begin(body)
    \/ \E p \in Calls : generate_tryon_insert(p)
    \/ \E p \in Calls : generate_tryon_job(p)
    \/ \E p \in Calls : generate_tryon_update(p)
    \/ \E id \in LookupIds : get_tryon_result(id)
    \/ \E id \in LookupIds : get_tryon_image_base64(id)
    \/ get_all_tryons
    \/ \E c \in ClientNames : create_status_check(c)
    \/ get_status_checks

Spec == Init /\ [][Next]_vars

\* the store may fail a write of generate_tryon
NextStoreFaults ==
    \/ Next
    \/ \E p \in Calls : generate_tryon_store_raises(p)

SpecStoreFaults == Init /\ [][NextStoreFaults]_vars

\* Scheduling: the event loop resumes a suspended handler once the call it
\* awaits has ended, and every awaited call ends (the store answers or raises,
\* the job settles): no submit call stays suspended for ever at an await.
Fairness ==
    \A p \in Calls :
        /\ WF_vars(generate_tryon_insert(p))
        /\ WF_vars(generate_tryon_job(p))
        /\ WF_vars(generate_tryon_update(p))

SpecFair == Spec /\ Fairness

SpecStoreFaultsFair == SpecStoreFaults /\ Fairness

(* --------------------------------------------------- read-back of a store *)
\* The database outlives the server: at start-up the try-on collection holds
\* the records earlier runs left.  Record i was created at a time before this
\* run's first clock reading, the times repeating with the given period (so
\* that the collection holds ties and is not in the order of creation), and is
\* completed, failed or still processing.
StoredRecord(i, period) ==
    LET obj == TryOnResult(i, ((i - 1) % period) - period + 1, <<"b">>, M2, DefaultStyle)
    IN IF i % 3 = 0 THEN Settled(obj, GenerationSuccess("https://fal/1.png", obj.style))
       ELSE IF i % 3 = 1 THEN Settled(obj, GenerationFailure("No images generated by FAL.AI"))
       ELSE obj

StoredSizes == (0..MaxSmall) \cup ((TryonListLimit - 1)..(TryonListLimit + MaxOver))

StoredCollections ==
    { [ i \in 1..n |-> StoredRecord(i, period) ] : n \in StoredSizes, period \in 1..MaxPeriod }

InitStored ==
    /\ tryon_results \in StoredCollections
    /\ status_checks = <<>>
    /\ now = 0
    /\ pc = [ p \in Calls |-> "idle" ]
    /\ request = [ p \in Calls |-> NoRequest ]
    /\ tryon_result = [ p \in Calls |-> NoTryOnResult ]
    /\ fal_outcome = [ p \in Calls |-> None ]
    /\ generation_result = [ p \in Calls |-> NoGeneration ]
    /\ response = [ p \in Calls |-> NoResponse ]
    /\ effects = [ p \in Calls |-> <<>> ]
    /\ reply = NoReply

\* the handlers that do not write the try-on collection
NextReadBack ==
    \/ \E id \in LookupIds : get_tryon_result(id)
    \/ \E id \in LookupIds : get_tryon_image_base64(id)
    \/ get_all_tryons
    \/ \E c \in ClientNames : create_status_check(c)
    \/ get_status_checks

SpecReadBack == InitStored /\ [][NextReadBack]_vars

\* the status check an earlier run left in the status-check collection
StoredStatusCheck == StatusCheck(MaxCalls + MaxStatusChecks + 1, 0, "c1")

InitStoredStatus ==
    /\ tryon_results = <<>>
    /\ status_checks = << StoredStatusCheck >>
    /\ now = 0
    /\ pc = [ p \in Calls |-> "idle" ]
    /\ request = [ p \in Calls |-> NoRequest ]
    /\ tryon_result = [ p \in Calls |-> NoTryOnResult ]
    /\ fal_outcome = [ p \in Calls |-> None ]
    /\ generation_result = [ p \in Calls |-> NoGeneration ]
    /\ response = [ p \in Calls |-> NoResponse ]
    /\ effects = [ p \in Calls |-> <<>> ]
    /\ reply = NoReply

\* every handler, on a status-check collection that is not empty
SpecStoredStatus == InitStoredStatus /\ [][Next]_vars

(* ------------------------------------------------------------ properties *)
Statuses == {"processing", "completed", "failed"}

Docs == { tryon_results[i] : i \in 1..Len(tryon_results) }

\* the calls that have answered
Answered == { p \in Calls : pc[p] = "done" }

\* the stored record of a call, None when there is none
StoredOf(p) == find_one(tryon_results, tryon_result[p].id)

\* the answer is the generation failure of generate_tryon
IsGenerationError(resp) ==
    /\ resp.status_code = 500
    /\ Len(resp.detail) = 2
    /\ resp.detail[1] = "Failed to generate try-on: "

\* C1: every stored try-on record has a status among processing, completed and
\* failed; a record enters the collection as processing; a status only ever
\* changes from processing to completed or from processing to failed, so a
\* completed or failed record keeps its status in every later step.
C1_StatusLifecycle ==
    [][ /\ Len(tryon_results') >= Len(tryon_results)
        /\ \A i \in 1..Len(tryon_results') :
             /\ tryon_results'[i].status \in Statuses
             /\ (i > Len(tryon_results)) => (tryon_results'[i].status = "processing")
             /\ (i <= Len(tryon_results)) =>
                   /\ tryon_results'[i].id = tryon_results[i].id
                   /\ (tryon_results'[i].status # tryon_results[i].status) =>
                         /\ tryon_results[i].status = "processing"
                         /\ tryon_results'[i].status \in {"completed", "failed"}
      ]_vars

\* two calls have settled their records, one as completed and one as failed,
\* the failed one after the completed one was already stored
C1_Witness ==
    /\ Len(tryon_results) = 2
    /\ \E i, j \in 1..2 :
         /\ tryon_results[i].status = "completed"
         /\ tryon_results[j].status = "failed"
    /\ \A p \in Calls : pc[p] = "done"

\* C2: a stored record carries an artifact (tryon_image is set, and not to the
\* empty string) exactly when its status is completed.
C2_ArtifactIffCompleted ==
    \A d \in Docs : (d.status = "completed") <=> ~Falsy(d.tryon_image)

\* the collection holds a completed record with its artifact beside a record
\* that is not completed
C2_Witness ==
    /\ \E d \in Docs : d.status = "completed" /\ d.tryon_image \in { Some(u) : u \in Urls }
    /\ \E d \in Docs : d.status = "failed"

\* C3: a submit that passed validation and has answered either returned a
\* record with status completed and a non-empty artifact, or failed with the
\* generation error while its stored record has status failed; never both,
\* never neither.
C3_SubmitOutcome ==
    \A p \in Answered :
        LET ok == /\ response[p].status_code = 200
                  /\ response[p].body.success
                  /\ response[p].body.status = "completed"
                  /\ ~Falsy(response[p].body.tryon_image)
            failed == /\ IsGenerationError(response[p])
                      /\ StoredOf(p) # None
                      /\ StoredOf(p)[1].status = "failed"
        IN (ok \/ failed) /\ ~(ok /\ failed)

\* one call has returned a completed record and another has failed with the
\* generation error
C3_Witness ==
    /\ \E p \in Answered : response[p].status_code = 200
    /\ \E p \in Answered : IsGenerationError(response[p])

\* a field of a posted body is absent: the key is missing or its value is empty
Absent(field) == field = None \/ field[1] = ""

\* the name of a posted body is empty, or blank
EmptyName(field) == field # None /\ Strip(field[1]) = <<>>

\* C4: a submit whose name is empty or blank, whose userImage is absent or
\* whose clothingImage is absent is refused with status 400 (and it never
\* gets a call of its own: no record, no job).
C4_RefusedWith400 ==
    (reply.op = "submit"
       /\ (EmptyName(reply.posted.name) \/ Absent(reply.posted.user_image)
             \/ Absent(reply.posted.clothing_image)))
    => reply.response.status_code = 400

\* C5: once a submit whose record was stored has answered, the record is not
\* processing, and it is failed whenever the call answered with an error.
C5_FailureIsTerminal ==
    \A p \in Answered :
        StoredOf(p) # None =>
            /\ StoredOf(p)[1].status # "processing"
            /\ (response[p].status_code # 200) => (StoredOf(p)[1].status = "failed")

\* the record as generate_tryon built it from the request
Created(p) ==
    TryOnResult(tryon_result[p].id, tryon_result[p].created_at,
                request[p].name, request[p].measurements, request[p].style)

\* C6: when the job of a submit has failed, the call answers 500 with the
\* generation error that carries the job's error text, the stored record is the
\* record as created with the status alone changed, to failed (no artifact, no
\* feedback), and get(id) returns exactly that record.
C6_JobFailure ==
    \A p \in Answered :
        ~generation_result[p].success =>
            /\ generation_result[p].error # ""
            /\ (fal_outcome[p] # None /\ fal_outcome[p][1].raised) =>
                   (generation_result[p].error = "fal transport error")
            /\ response[p] =
                   HTTPException(500, <<"Failed to generate try-on: ",
                                        generation_result[p].error>>)
            /\ StoredOf(p) = Some([ Created(p) EXCEPT !.status = "failed" ])
            /\ (reply.op = "get" /\ reply.arg = tryon_result[p].id) =>
                   /\ reply.response.status_code = 200
                   /\ reply.response.body.status = "failed"
                   /\ reply.response.body.tryon_image = None
                   /\ reply.response.body.feedback = None
                   /\ reply.response.body = [ Created(p) EXCEPT !.status = "failed" ]

\* get(id) has just answered for a record whose job the provider failed
C6_Witness ==
    \E p \in Answered :
        /\ fal_outcome[p] # None
        /\ ~generation_result[p].success
        /\ reply.op = "get"
        /\ reply.arg = tryon_result[p].id
        /\ reply.response.status_code = 200

\* the provider handed back a result set whose first entry has a reference
FirstArtifact(p) ==
    IF /\ fal_outcome[p] # None
       /\ ~fal_outcome[p][1].raised
       /\ fal_outcome[p][1].result.truthy
       /\ fal_outcome[p][1].result.has_images
       /\ Len(fal_outcome[p][1].result.images) > 0
       /\ fal_outcome[p][1].result.images[1].has_url
    THEN Some(fal_outcome[p][1].result.images[1].url)
    ELSE None

\* C7: when the provider handed back a non-empty result set whose first entry
\* refers to u, the call returns success with status completed, artifact u and
\* a non-empty feedback, and the stored record of the returned id holds the
\* same status, artifact and feedback.
C7_JobSuccess ==
    \A p \in Answered :
        FirstArtifact(p) # None =>
            /\ response[p].status_code = 200
            /\ response[p].body.success
            /\ response[p].body.status = "completed"
            /\ response[p].body.tryon_image = FirstArtifact(p)
            /\ response[p].body.feedback # None
            /\ response[p].body.feedback[1] # <<>>
            /\ find_one(tryon_results, response[p].body.id) # None
            /\ LET d == find_one(tryon_results, response[p].body.id)[1]
               IN /\ d.status = response[p].body.status
                  /\ d.tryon_image = response[p].body.tryon_image
                  /\ d.feedback = response[p].body.feedback

\* a call has answered after the provider handed back two entries
C7_Witness ==
    \E p \in Answered :
        /\ FirstArtifact(p) # None
        /\ Len(fal_outcome[p][1].result.images) = 2
        /\ Len(tryon_results) = 2

\* C8: once a submit has returned successfully with an id, get(id) answers 200
\* with a record whose id is that id and whose name, measurements and style are
\* those of the request, whatever else ran in between.
C8_GetAfterSubmit ==
    \A p \in Answered :
        (response[p].status_code = 200
           /\ reply.op = "get" /\ reply.arg = response[p].body.id) =>
            /\ reply.response.status_code = 200
            /\ reply.response.body.id = response[p].body.id
            /\ reply.response.body.name = request[p].name
            /\ reply.response.body.measurements = request[p].measurements
            /\ reply.response.body.style = request[p].style

\* get(id) has just answered for the second of two stored records, submitted
\* with a name that starts with a blank, after both calls and a status check
C8_Witness ==
    \E p \in Answered :
        /\ response[p].status_code = 200
        /\ request[p].name = <<SP, "a">>
        /\ reply.op = "get"
        /\ reply.arg = response[p].body.id
        /\ Len(tryon_results) = 2
        /\ tryon_results[2].id = reply.arg
        /\ Len(status_checks) = 1

\* C9: getArtifact answers 404 "not found" when no record has the id and
\* 404 "not available" when the record is there and not completed; it answers
\* with an artifact only for a completed record.
C9_ArtifactUnavailable ==
    reply.op = "base64" =>
        LET d == find_one(tryon_results, reply.arg)
        IN /\ (d = None) =>
                 (reply.response = HTTPException(404, <<"Try-on result not found">>))
           /\ (d # None /\ d[1].status # "completed") =>
                 (reply.response = HTTPException(404, <<"Try-on image not available">>))
           /\ (reply.response.status_code = 200) =>
                 (d # None /\ d[1].status = "completed")

\* getArtifact has just refused a failed record while another is processing
C9_Witness ==
    /\ reply.op = "base64"
    /\ find_one(tryon_results, reply.arg) # None
    /\ find_one(tryon_results, reply.arg)[1].status = "failed"
    /\ reply.response.status_code = 404
    /\ \E d \in Docs : d.status = "processing"

\* C10: getArtifact of a completed record answers 200 with the record's
\* artifact; after a successful submit that is the artifact the submit returned.
C10_ArtifactAfterSubmit ==
    /\ \A d \in Docs :
         (d.status = "completed" /\ reply.op = "base64" /\ reply.arg = d.id) =>
            /\ reply.response.status_code = 200
            /\ reply.response.body.image_base64 = d.tryon_image
            /\ reply.response.body.id = d.id
    /\ \A p \in Answered :
         (response[p].status_code = 200
            /\ reply.op = "base64" /\ reply.arg = response[p].body.id) =>
            /\ reply.response.status_code = 200
            /\ reply.response.body.image_base64 = response[p].body.tryon_image

\* getArtifact has just answered for one of two completed records that hold
\* different artifacts
C10_Witness ==
    /\ reply.op = "base64"
    /\ reply.response.status_code = 200
    /\ \E p, q \in Answered :
         /\ response[p].status_code = 200
         /\ response[q].status_code = 200
         /\ response[p].body.tryon_image # response[q].body.tryon_image
         /\ reply.arg = response[q].body.id

\* the store writes a submit call has completed, in order
WritesOf(p) == SelectSeq(effects[p], LAMBDA e : e.op \in {"insert_one", "update_one"})

\* the job invocations a submit call has completed
JobsOf(p) == SelectSeq(effects[p], LAMBDA e : e.op = "generate_virtual_tryon")

\* the call was cut short by a store call that raised
StoreRaised(p) == pc[p] = "done" /\ response[p] = InternalServerError

\* C11: the writes of a submit call on the try-on collection are, in order, one
\* insert of a processing record and then one update of that record's id: never
\* more than one update, never a write before the insert; a call that answered
\* without a store call raising has made exactly these two writes.  Every
\* change of the collection is the write of one call: an insert appends the
\* call's record, an update changes the record of the call's id alone.
C11_TwoWrites ==
    /\ [](\A p \in Calls :
            /\ Len(WritesOf(p)) <= 2
            /\ Len(WritesOf(p)) >= 1 =>
                   WritesOf(p)[1] = Effect("insert_one", tryon_result[p].id, "processing")
            /\ Len(WritesOf(p)) = 2 =>
                   /\ WritesOf(p)[2].op = "update_one"
                   /\ WritesOf(p)[2].id = WritesOf(p)[1].id
                   /\ WritesOf(p)[2].status \in {"completed", "failed"}
            /\ (pc[p] = "done" /\ ~StoreRaised(p)) => Len(WritesOf(p)) = 2)
    /\ [][ tryon_results' # tryon_results =>
             \E p \in Calls :
                 /\ Len(WritesOf(p)') = Len(WritesOf(p)) + 1
                 /\ \A q \in Calls \ {p} : effects'[q] = effects[q]
                 /\ LET w == WritesOf(p)'[Len(WritesOf(p)')]
                    IN IF w.op = "insert_one"
                       THEN /\ Len(tryon_results') = Len(tryon_results) + 1
                            /\ SubSeq(tryon_results', 1, Len(tryon_results)) = tryon_results
                            /\ tryon_results'[Len(tryon_results')].id = w.id
                            /\ tryon_results'[Len(tryon_results')].status = "processing"
                       ELSE /\ Len(tryon_results') = Len(tryon_results)
                            /\ \A i \in 1..Len(tryon_results) :
                                  tryon_results[i].id # w.id =>
                                      tryon_results'[i] = tryon_results[i]
       ]_vars

\* both calls have answered after their two writes each, one record completed
\* and the other failed
C11_Witness ==
    /\ \A p \in Calls : pc[p] = "done" /\ Len(WritesOf(p)) = 2
    /\ Len(tryon_results) = 2
    /\ tryon_results[1].status = "completed"
    /\ tryon_results[2].status = "failed"

\* C12: a submit call invokes the job at most once, only after its insert and
\* before its update; a call that answered without a store call raising has
\* invoked it exactly once, the provider is reached only inside that
\* invocation, and a stored record is completed or failed only when the job of
\* its call was invoked.
C12_JobOnce ==
    \A p \in Calls :
        /\ Len(JobsOf(p)) <= 1
        /\ Len(JobsOf(p)) = 1 =>
               /\ Len(effects[p]) >= 2
               /\ effects[p][1].op = "insert_one"
               /\ effects[p][2] = Effect("generate_virtual_tryon", effects[p][1].id, "processing")
               /\ \A i \in 1..Len(effects[p]) : effects[p][i].op = "update_one" => i > 2
        /\ (\E i \in 1..Len(effects[p]) : effects[p][i].op = "update_one") =>
               Len(JobsOf(p)) = 1
        /\ (pc[p] = "done" /\ ~StoreRaised(p)) => Len(JobsOf(p)) = 1
        /\ fal_outcome[p] # None => Len(JobsOf(p)) = 1
        /\ (pc[p] # "idle" /\ StoredOf(p) # None
              /\ StoredOf(p)[1].status \in {"completed", "failed"}) =>
               Len(JobsOf(p)) = 1

\* one call has answered after a job that failed at the provider, while the
\* job of the other call has settled and its record is still processing
C12_Witness ==
    \E p, q \in Calls :
        /\ pc[p] = "done"
        /\ fal_outcome[p] # None
        /\ ~generation_result[p].success
        /\ Len(JobsOf(p)) = 1
        /\ pc[q] = "update"
        /\ Len(JobsOf(q)) = 1
        /\ StoredOf(q)[1].status = "processing"

\* a record with this id is stored with one of these statuses
StoredWithStatus(id, statuses) == \E d \in Docs : d.id = id /\ d.status \in statuses

\* C13: every record that is stored as processing is eventually completed or
\* failed.
C13_RecordSettles ==
    \A id \in Uuids :
        StoredWithStatus(id, {"processing"}) ~> StoredWithStatus(id, {"completed", "failed"})

C15_GetUnknown ==
    /\ []((reply.op = "get" /\ \A d \in Docs : d.id # reply.arg) =>
             reply.response = HTTPException(404, <<"Try-on result not found">>))
    /\ [][ (reply'.op = "get" /\ reply' # reply) =>
             /\ tryon_results' = tryon_results
             /\ status_checks' = status_checks
       ]_vars

\* get(id) has just refused the id a submit call drew and has not inserted yet,
\* while the collection holds another record
C15_Witness ==
    /\ reply.op = "get"
    /\ reply.response.status_code = 404
    /\ \E p \in Calls : pc[p] = "insert" /\ tryon_result[p].id = reply.arg
    /\ Len(tryon_results) = 1

\* the fields of a record that are fixed at its creation
Fixed(d) == << d.id, d.created_at, d.name, d.measurements, d.style >>

\* C16: no step removes a record from the try-on collection or moves it, and
\* no step changes the id, created_at, name, measurements or style of a stored
\* record; the stored record of a call holds in these fields what the call
\* wrote at creation, also after the update that rewrites the whole record.
C16_FixedFields ==
    /\ [](\A p \in Calls :
            (pc[p] # "idle" /\ StoredOf(p) # None) =>
                Fixed(StoredOf(p)[1]) = Fixed(Created(p)))
    /\ [][ /\ Len(tryon_results') >= Len(tryon_results)
           /\ \A i \in 1..Len(tryon_results) :
                 Fixed(tryon_results'[i]) = Fixed(tryon_results[i])
       ]_vars

\* the first of two stored records has been rewritten whole by the update of a
\* finished job, after the second was inserted
C16_Witness ==
    /\ Len(tryon_results) = 2
    /\ tryon_results[1].status = "completed"
    /\ tryon_results[1].feedback # None
    /\ tryon_results[2].status = "processing"
    /\ \E p \in Calls :
          /\ pc[p] = "done"
          /\ tryon_result[p].id = tryon_results[1].id
          /\ Fixed(tryon_results[1]) = Fixed(Created(p))

\* C17: a step that changes the status-check collection is a creation: it
\* appends one record with a new id, which it returns, and leaves the records
\* that were there and the whole try-on collection as they were; no step of a
\* submit call, no refused submit and no read-back changes the status-check
\* collection.
C17_StatusChecksApart ==
    [][ /\ (status_checks' # status_checks) =>
             /\ Len(status_checks') = Len(status_checks) + 1
             /\ SubSeq(status_checks', 1, Len(status_checks)) = status_checks
             /\ \A i \in 1..Len(status_checks) :
                   status_checks[i].id # status_checks'[Len(status_checks')].id
             /\ tryon_results' = tryon_results
             /\ reply'.op = "create_status"
             /\ reply'.response = Returned(status_checks'[Len(status_checks')])
        /\ (reply'.op = "create_status" /\ reply' # reply) =>
             Len(status_checks') = Len(status_checks) + 1
        /\ (reply'.op \in {"submit", "get", "base64", "list", "list_status"}) =>
             status_checks' = status_checks
        /\ (pc' # pc \/ tryon_results' # tryon_results) =>
             status_checks' = status_checks
      ]_vars

\* a status check has just been created beside the one that was there, while
\* the try-on collection holds a completed and a processing record
C17_Witness ==
    /\ reply.op = "create_status"
    /\ Len(status_checks) = 2
    /\ status_checks[1] = StoredStatusCheck
    /\ reply.response.body = status_checks[2]
    /\ Len(tryon_results) = 2
    /\ tryon_results[1].status = "completed"
    /\ tryon_results[2].status = "processing"

ReadBacks == {"get", "base64", "list", "list_status"}

\* what a read-back answers on the collections as they are
ReadBackResponse(op, arg) ==
    IF op = "get" THEN get_tryon_result_response(tryon_results, arg)
    ELSE IF op = "base64" THEN get_tryon_image_base64_response(tryon_results, arg)
    ELSE IF op = "list" THEN get_all_tryons_response(tryon_results)
    ELSE Returned(JsonArray(to_list(status_checks, StatusListLimit)))

Started == { p \in Calls : pc[p] # "idle" }

\* C19: the records of different calls have different ids, and so have the
\* stored records; the stored record of a call stays as the call created it
\* until the call's own update, whatever the other call does; once the call
\* has answered (no store call of its own having raised), the status and the
\* artifact of its record are those of its own job: completed with the job's
\* artifact, or failed without one.  A step that changes a stored record is a
\* step of the call that created it.
C19_CallsApart ==
    /\ [](/\ \A p, q \in Started : p # q => tryon_result[p].id # tryon_result[q].id
          /\ \A i, j \in 1..Len(tryon_results) :
                i # j => tryon_results[i].id # tryon_results[j].id
          /\ \A p \in Started :
                /\ (pc[p] \in {"job", "update"}) => StoredOf(p) = Some(Created(p))
                /\ (pc[p] = "done" /\ ~StoreRaised(p)) =>
                      /\ StoredOf(p) # None
                      /\ StoredOf(p)[1].status =
                            (IF generation_result[p].success THEN "completed" ELSE "failed")
                      /\ StoredOf(p)[1].tryon_image =
                            (IF generation_result[p].success
                             THEN Some(generation_result[p].tryon_image) ELSE None))
    /\ [][ \A i \in 1..Len(tryon_results) :
               (i <= Len(tryon_results') /\ tryon_results'[i] # tryon_results[i]) =>
                   \E p \in Started :
                       /\ tryon_result[p].id = tryon_results[i].id
                       /\ pc[p] = "update"
                       /\ pc'[p] = "done"
                       /\ \A q \in Calls \ {p} : pc'[q] = pc[q]
       ]_vars

\* both calls have answered; the call that inserted first failed and the one
\* that inserted second completed with its own artifact, the two jobs having
\* been given different outcomes by the provider
C19_Witness ==
    \E p, q \in Calls :
        /\ p # q
        /\ pc[p] = "done" /\ pc[q] = "done"
        /\ fal_outcome[p] # None /\ fal_outcome[q] # None
        /\ ~generation_result[p].success
        /\ generation_result[q].success
        /\ tryon_results[1].id = tryon_result[p].id
        /\ tryon_results[2].id = tryon_result[q].id
        /\ tryon_results[1].status = "failed"
        /\ tryon_results[2].tryon_image = Some(generation_result[q].tryon_image)

\* the name of a posted body is missing, empty or blank
MissingName(field) == field = None \/ Strip(field[1]) = <<>>

\* the message for the first missing input, in the order userImage,
\* clothingImage, name
FirstMissing(body) ==
    IF Absent(body.user_image) THEN <<"User image is required">>
    ELSE IF Absent(body.clothing_image) THEN <<"Clothing image is required">>
    ELSE <<"Name is required">>

\* C20: a submit that lacks userImage, clothingImage or name is refused with
\* status 400 and a message that names one field, the first missing one in the
\* order userImage, clothingImage, name; it is never answered 500.
C20_FirstMissingField ==
    (reply.op = "submit"
       /\ (Absent(reply.posted.user_image) \/ Absent(reply.posted.clothing_image)
             \/ MissingName(reply.posted.name)))
    => /\ reply.response.status_code = 400
       /\ reply.response.detail = FirstMissing(reply.posted)

====
